---- MODULE Spec2Model ----
(***************************************************************************)
(* The aap_job resource of terraform-provider-aap                          *)
(* (internal/provider/job_resource.go): launching a job from a template,   *)
(* optionally polling it to a final state, and the Create / Read / Update  *)
(* / Delete handlers built from the two.                                   *)
(*                                                                         *)
(* One resource instance is modelled.  A handler runs from "idle" to       *)
(* "done"; a handler that polls passes through "poll", where the retry     *)
(* loop of retry.RetryContext interleaves fetch attempts with the timer    *)
(* and with the caller's cancellation.  The remote system's answers are    *)
(* inputs, drawn from the small sets below.                                *)
(***************************************************************************)
EXTENDS Integers, Sequences, FiniteSets, TLC

VARIABLES
    config,         \* the resource's configuration (what a plan holds)
    tfstate,        \* the resource's state as Terraform stores it
    op,             \* the handler that is running: Create, Read, Update, Delete
    pc,             \* idle | poll | done
    data,           \* the handler's local `data`
    destroyJobData, \* Delete's local `destroyJobData`
    diags,          \* resp.Diagnostics of the running handler
    stateSet,       \* resp.State.Set was called by the running handler
    launches,       \* the launch requests the running handler has sent
    model,          \* the poller's `model` parameter (a copy of the record)
    diagnostics,    \* the poller's `diagnostics` parameter (a copy of the slice)
    fetches,        \* the status fetches the running handler has started
    fetchLog,       \* the finished fetches: the URL asked and what came back
    pollPc,         \* none | wait | inflight | posted: where the retry loop
                    \* stands (posted: the goroutine has ended and its
                    \* result awaits the caller)
    deadline,       \* the timeout handed to retry.RetryContext
    now,            \* time elapsed since the poller was started
    timerFired,     \* the timeout fired while a fetch was in flight
    ctxDone,        \* the caller's context is cancelled
    resultErr,      \* RetryContext's resultErr: the last attempt's error
    waitErr,        \* none | what the wait itself ended with
    pollResult      \* none | what retry.RetryContext returned

vars == <<config, tfstate, op, pc, data, destroyJobData, diags, stateSet,
          launches, model, diagnostics, fetches, fetchLog, pollPc, deadline,
          now, timerFired, ctxDone, resultErr, waitErr,
                   pollResult>>

(***************************************************************************)
(* Bounds of the model.                                                    *)
(***************************************************************************)
\* Fetch attempts one poller may start.
MaxFetches == 3

(***************************************************************************)
(* Framework values: types.Int64 and types.List carry a null flag, and the *)
(* Value* accessors of a null value return the zero value.                 *)
(***************************************************************************)
Int64Null == [null |-> TRUE, value |-> 0]
Int64Value(v) == [null |-> FALSE, value |-> v]
ValueInt64(x) == x.value
IsNull(x) == x.null

ListNull == [null |-> TRUE, elems |-> <<>>]
ListValue(elems) == [null |-> FALSE, elems |-> elems]

\* A diagnostic is a severity and a summary; diag.Diagnostics.Append drops
\* duplicates, so a set holds them.
ErrorDiag(summary) == [severity |-> "error", summary |-> summary]
WarningDiag(summary) == [severity |-> "warning", summary |-> summary]
HasError(ds) == \E d \in ds : d.severity = "error"

(***************************************************************************)
(* JobResourceModel.  The zero value is what `var data JobResourceModel`   *)
(* holds before it is filled.                                              *)
(***************************************************************************)
ZeroModel ==
    [templateID |-> Int64Null, type |-> "", url |-> "", status |-> "",
     inventoryID |-> Int64Null, extraVars |-> "", ignoredFields |-> ListNull,
     waitForCompletion |-> FALSE, waitTimeout |-> 0,
     destroyTemplateID |-> Int64Null]

NoState == [present |-> FALSE, rec |-> ZeroModel]
StateOf(rec) == [present |-> TRUE, rec |-> rec]

(***************************************************************************)
(* The remote API.  A body is what json.Unmarshal makes of the bytes into  *)
(* a JobAPIModel: it fails (valid = FALSE: empty or malformed bytes), or   *)
(* it yields the fields, a field missing from the JSON being its zero      *)
(* value.  ignored_fields lists the map's keys in the order a range over   *)
(* the map yields them.                                                    *)
(***************************************************************************)
NilBody ==
    [valid |-> FALSE, job_template |-> 0, job_type |-> "", url |-> "",
     status |-> "", inventory |-> 0, ignored_fields |-> <<>>]

\* Well-formed JSON that carries none of the job's fields, such as
\* {"detail": "Not found."}.
DetailBody == [NilBody EXCEPT !.valid = TRUE]

JobBody(tpl, url, status, inv, ign) ==
    [valid |-> TRUE, job_template |-> tpl, job_type |-> "run", url |-> url,
     status |-> status, inventory |-> inv, ignored_fields |-> ign]

\* An HTTP exchange: a transport failure (err), or a status code and a body.
HttpResponse(err, code, body) == [err |-> err, code |-> code, body |-> body]

StatusCreated == 201
StatusOK == 200
StatusNotFound == 404

(***************************************************************************)
(* IsFinalStateAAPJob: a lookup in the finalStates map.                    *)
(***************************************************************************)
finalStates ==
    ("new" :> FALSE) @@ ("pending" :> FALSE) @@ ("waiting" :> FALSE) @@
    ("running" :> FALSE) @@ ("successful" :> TRUE) @@ ("failed" :> TRUE) @@
    ("error" :> TRUE) @@ ("canceled" :> TRUE)

\* IsFinalStateAAPJob taking a state missing from the map for a final one.
IsFinalStateAAPJobUnknownFinal(state) ==
    LET isPresent == state \in DOMAIN finalStates
    IN  ~isPresent \/ finalStates[state]

IsFinalStateAAPJob(state) ==
    LET isPresent == state \in DOMAIN finalStates
    IN  isPresent /\ finalStates[state]

(***************************************************************************)
(* ValidateResponse (utils.go): an error diagnostic for a transport        *)
(* failure and for a status code outside the expected ones.                *)
(***************************************************************************)
ValidateResponse(resp, expectedStatuses) ==
    IF resp.err THEN {ErrorDiag("Client request error")}
    ELSE IF resp.code \notin expectedStatuses
         THEN {ErrorDiag("Unexpected HTTP status code")}
         ELSE {}

\* client.GetWithStatus: the body, ValidateResponse's diagnostics for an
\* expected 200, and the status code.
GetWithStatus(resp) ==
    [body |-> resp.body, diags |-> ValidateResponse(resp, {StatusOK}),
     status |-> resp.code]

\* client.Get: GetWithStatus without the status code; its second result is
\* non-nil exactly when there are diagnostics.
Get(resp) ==
    [body |-> resp.body, err |-> ValidateResponse(resp, {StatusOK}) # {}]

(***************************************************************************)
(* JobResourceModel.CreateRequestBody: the launch payload.                 *)
(***************************************************************************)
\* CreateRequestBody without the default inventory.
CreateRequestBodyNoDefault(r) ==
    [extra_vars |-> r.extraVars, inventory |-> ValueInt64(r.inventoryID)]

CreateRequestBody(r) ==
    LET inventoryID == IF ValueInt64(r.inventoryID) = 0
                       THEN 1
                       ELSE ValueInt64(r.inventoryID)
    IN  [extra_vars |-> r.extraVars, inventory |-> inventoryID]

(***************************************************************************)
(* JobResourceModel.ParseIgnoredFields and ParseHttpResponse.              *)
(***************************************************************************)
keyMapping == ("inventory" :> "inventory")

\* ParseIgnoredFields building a list value from an empty key list too.
ParseIgnoredFieldsZeroLength(ignoredFields) ==
    LET keysList == [i \in 1..Len(ignoredFields) |->
                        IF ignoredFields[i] \in DOMAIN keyMapping
                        THEN keyMapping[ignoredFields[i]]
                        ELSE ignoredFields[i]]
    IN  ListValue(keysList)

ParseIgnoredFields(ignoredFields) ==
    LET keysList == [i \in 1..Len(ignoredFields) |->
                        IF ignoredFields[i] \in DOMAIN keyMapping
                        THEN keyMapping[ignoredFields[i]]
                        ELSE ignoredFields[i]]
    IN  IF Len(keysList) > 0 THEN ListValue(keysList) ELSE ListNull

\* The record after the call, and the diagnostics the call returns.
ParseHttpResponse(r, body) ==
    IF ~body.valid
    THEN [rec |-> r,
          diags |-> {ErrorDiag("Error parsing JSON response from AAP")}]
    ELSE [rec |-> [r EXCEPT !.type = body.job_type,
                            !.url = body.url,
                            !.status = body.status,
                            !.templateID = Int64Value(body.job_template),
                            !.inventoryID = Int64Value(body.inventory),
                            !.ignoredFields =
                                ParseIgnoredFields(body.ignored_fields)],
          diags |-> {}]

(***************************************************************************)
(* JobResource.LaunchJob: the request sent, the record after the call and  *)
(* the diagnostics returned.  json.Marshal of a JobAPIModel cannot fail,   *)
(* so CreateRequestBody's error branch is not modelled.                    *)
(***************************************************************************)
LaunchRequest(r) ==
    [method |-> "POST", template |-> r.templateID,
     body |-> CreateRequestBody(r)]

\* A launch as the log keeps it: the record LaunchJob was called on, the
\* request it sent and the answer it got.
Launch(r, resp) ==
    [record |-> r, request |-> LaunchRequest(r), response |-> resp]

\* LaunchJob accepting 200 as well as 201.
LaunchJobAccepts200(r, resp) ==
    LET validated == ValidateResponse(resp, {StatusOK, StatusCreated})
        parsed == ParseHttpResponse(r, resp.body)
    IN  IF HasError(validated)
        THEN [rec |-> r, diags |-> validated]
        ELSE [rec |-> parsed.rec, diags |-> validated \cup parsed.diags]

LaunchJob(r, resp) ==
    LET validated == ValidateResponse(resp, {StatusCreated})
        parsed == ParseHttpResponse(r, resp.body)
    IN  IF HasError(validated)
        THEN [rec |-> r, diags |-> validated]
        ELSE [rec |-> parsed.rec, diags |-> validated \cup parsed.diags]

(***************************************************************************)
(* retryUntilAAPJobReachesAnyFinalState: one attempt of the retry          *)
(* function.  `m` and `dgs` are the function's own parameters, copies of   *)
(* the handler's record and diagnostics; the attempt returns them as it    *)
(* leaves them, with nil (the job is final) or the retryable error.        *)
(***************************************************************************)
\* RetryAttempt deciding on the status the record held before the refresh.
RetryAttemptStaleStatus(m, dgs, resp) ==
    LET got == Get(resp)
        parsed == ParseHttpResponse(m, got.body)
    IN  [model |-> parsed.rec,
         diagnostics |-> dgs \cup parsed.diags,
         err |-> IF got.err
                 THEN "error fetching job status"
                 ELSE IF ~IsFinalStateAAPJob(m.status)
                      THEN "job hasn't yet reached a final state"
                      ELSE "nil"]

\* RetryAttempt ending the wait when the job is reported gone.
RetryAttemptNotFoundEnds(m, dgs, resp) ==
    LET got == Get(resp)
        parsed == ParseHttpResponse(m, got.body)
    IN  [model |-> parsed.rec,
         diagnostics |-> dgs \cup parsed.diags,
         err |-> IF ~resp.err /\ resp.code = StatusNotFound
                 THEN "nil"
                 ELSE IF got.err
                 THEN "error fetching job status"
                 ELSE IF ~IsFinalStateAAPJob(parsed.rec.status)
                      THEN "job hasn't yet reached a final state"
                      ELSE "nil"]

\* RetryAttempt whose failed GET is not retried: the wait ends with it.
RetryAttemptFetchErrorEnds(m, dgs, resp) ==
    LET got == Get(resp)
        parsed == ParseHttpResponse(m, got.body)
    IN  [model |-> parsed.rec,
         diagnostics |-> dgs \cup parsed.diags,
         err |-> IF got.err
                 THEN "nil"
                 ELSE IF ~IsFinalStateAAPJob(parsed.rec.status)
                      THEN "job hasn't yet reached a final state"
                      ELSE "nil"]

RetryAttempt(m, dgs, resp) ==
    LET got == Get(resp)
        parsed == ParseHttpResponse(m, got.body)
    IN  [model |-> parsed.rec,
         diagnostics |-> dgs \cup parsed.diags,
         err |-> IF got.err
                 THEN "error fetching job status"
                 ELSE IF ~IsFinalStateAAPJob(parsed.rec.status)
                      THEN "job hasn't yet reached a final state"
                      ELSE "nil"]

(***************************************************************************)
(* The inputs.                                                             *)
(***************************************************************************)
JobURL == "/api/v2/jobs/1/"

\* The configuration of the resource.  Polling configurations are fewer
\* than the others: each of them is explored through every poll.
Configs ==
    { [ZeroModel EXCEPT !.templateID = Int64Value(7),
                        !.inventoryID = inv,
                        !.extraVars = ev,
                        !.waitForCompletion = FALSE,
                        !.waitTimeout = 1,
                        !.destroyTemplateID = dt] :
        inv \in {Int64Null, Int64Value(0), Int64Value(5)},
        ev \in {"", "a: 1"},
        dt \in {Int64Null, Int64Value(-1), Int64Value(0), Int64Value(9)} }
    \cup
    { [ZeroModel EXCEPT !.templateID = Int64Value(7),
                        !.inventoryID = c[1],
                        !.extraVars = c[2],
                        !.waitForCompletion = TRUE,
                        !.waitTimeout = 1,
                        !.destroyTemplateID = c[3]] :
        c \in {<<Int64Value(5), "a: 1", Int64Value(9)>>} }
    \cup
    { [ZeroModel EXCEPT !.templateID = Int64Value(7),
                        !.inventoryID = Int64Value(5),
                        !.extraVars = "a: 1",
                        !.waitForCompletion = TRUE,
                        !.waitTimeout = 0,
                        !.destroyTemplateID = Int64Value(9)],
      [ZeroModel EXCEPT !.templateID = Int64Value(7),
                        !.waitForCompletion = TRUE,
                        !.waitTimeout = 1,
                        !.destroyTemplateID = Int64Value(0)] }

\* What the remote system may answer to a launch of template `tpl`.
LaunchResponses(tpl) ==
    { HttpResponse(FALSE, 201, JobBody(tpl, JobURL, "pending", 5, <<>>)),
      HttpResponse(FALSE, 201, JobBody(tpl, JobURL, "pending", 0, <<>>)),
      HttpResponse(FALSE, 201,
                   JobBody(tpl, JobURL, "successful", 1, <<"inventory">>)),
      HttpResponse(FALSE, 201, NilBody),
      HttpResponse(FALSE, 200, JobBody(tpl, JobURL, "pending", 5, <<>>)),
      HttpResponse(FALSE, 500, DetailBody),
      HttpResponse(TRUE, 0, NilBody) }

\* What the remote system may answer to a status fetch.
FetchResponses ==
    { HttpResponse(FALSE, 200, JobBody(7, JobURL, "running", 5, <<>>)),
      HttpResponse(FALSE, 200, JobBody(7, JobURL, "successful", 0, <<>>)),
      HttpResponse(FALSE, 200, JobBody(7, "", "failed", 5, <<"inventory">>)),
      HttpResponse(FALSE, 200, JobBody(7, JobURL, "archived", 5, <<>>)),
      HttpResponse(FALSE, 200, NilBody),
      HttpResponse(FALSE, 404, DetailBody),
      HttpResponse(TRUE, 0, NilBody) }

\* A Read may also meet a server error, and a job whose launch ignored two
\* fields: the range over the decoded map may visit the two keys in either
\* order.
ReadResponses ==
    FetchResponses \cup
    { HttpResponse(FALSE, 500, DetailBody),
      HttpResponse(FALSE, 200,
                   JobBody(7, JobURL, "successful", 5,
                           <<"inventory", "limit">>)),
      HttpResponse(FALSE, 200,
                   JobBody(7, JobURL, "successful", 5,
                           <<"limit", "inventory">>)) }

(***************************************************************************)
(* Pieces of the handlers.                                                 *)
(***************************************************************************)
\* WaitError with the failure reported as a warning.
WaitErrorAsWarning(err, summary) ==
    IF err # "nil" THEN {WarningDiag(summary)} ELSE {}

\* Create, Update, Delete: the diagnostic appended when retry.RetryContext
\* returned an error.
WaitError(err, summary) ==
    IF err # "nil" THEN {ErrorDiag(summary)} ELSE {}

\* Create, Update: the record handed to resp.State.Set.  The poller
\* refreshed its own copy `m`; the handler saves its `data`.
SavedRecord(d, m) == d

\* LaunchesDestroyJob with >= for >.
LaunchesDestroyJobNonNegative(d) ==
    ~IsNull(d.destroyTemplateID) /\ ValueInt64(d.destroyTemplateID) >= 0

\* Delete: whether a destroy job is launched.
LaunchesDestroyJob(d) ==
    ~IsNull(d.destroyTemplateID) /\ ValueInt64(d.destroyTemplateID) > 0

\* DestroyJobModel launching the resource's own template again.
DestroyJobModelSameTemplate(d) ==
    [ZeroModel EXCEPT !.templateID = d.templateID,
                      !.inventoryID = d.inventoryID,
                      !.extraVars = d.extraVars,
                      !.waitForCompletion = d.waitForCompletion,
                      !.waitTimeout = d.waitTimeout]

\* Delete: the temporary model of the destroy job.
DestroyJobModel(d) ==
    [ZeroModel EXCEPT !.templateID = d.destroyTemplateID,
                      !.inventoryID = d.inventoryID,
                      !.extraVars = d.extraVars,
                      !.waitForCompletion = d.waitForCompletion,
                      !.waitTimeout = d.waitTimeout]

\* retry.RetryContext's result: the last attempt's error when there is one,
\* else what the wait ended with.
RetryContextResult(lastErr, ended) ==
    IF lastErr = "nil" THEN ended ELSE lastErr

(***************************************************************************)
(* The state after construction: a configuration, no state, no handler.    *)
(***************************************************************************)
Idle ==
    /\ op = "none" /\ pc = "idle"
    /\ data = ZeroModel /\ destroyJobData = ZeroModel
    /\ diags = {} /\ stateSet = FALSE /\ launches = <<>>
    /\ model = ZeroModel /\ diagnostics = {}
    /\ fetches = 0 /\ fetchLog = <<>>
    /\ pollPc = "none" /\ deadline = 0 /\ now = 0 /\ timerFired = FALSE
    /\ ctxDone = FALSE
    /\ resultErr = "nil" /\ waitErr = "none" /\ pollResult = "none"

Init ==
    /\ config \in Configs
    /\ tfstate = NoState
    /\ Idle

pollVars == <<model, diagnostics, fetches, fetchLog, pollPc, deadline, now,
              timerFired, ctxDone, resultErr, waitErr,
                   pollResult>>

\* The handler starts retry.RetryContext on a copy of `rec` and of its
\* diagnostics.
StartPoll(rec, ds) ==
    /\ pc' = "poll"
    /\ model' = rec
    /\ diagnostics' = ds
    /\ deadline' = rec.waitTimeout
    /\ pollPc' = "wait"
    /\ UNCHANGED <<fetches, fetchLog, now, timerFired, ctxDone, resultErr, waitErr,
                   pollResult>>

(***************************************************************************)
(* Create and Update: launch, then either save the record or start the     *)
(* poller.  `plan` is the planned record, `resp` the remote answer.        *)
(***************************************************************************)
\* LaunchAndSave reusing the job of a resource that already has one: no
\* launch is sent and the state's record is saved again.
LaunchAndSaveReusesJob(name, plan, resp) ==
    LET launched == LaunchJob(plan, resp)
    IN  IF tfstate.present
        THEN /\ op' = name
             /\ pc' = "done"
             /\ data' = tfstate.rec
             /\ diags' = {}
             /\ stateSet' = TRUE
             /\ UNCHANGED <<config, destroyJobData, launches, tfstate,
                            pollVars>>
        ELSE /\ op' = name
             /\ launches' = Append(launches, Launch(plan, resp))
             /\ data' = launched.rec
             /\ diags' = launched.diags
             /\ UNCHANGED <<config, destroyJobData>>
             /\ IF HasError(launched.diags)
                THEN /\ pc' = "done"
                     /\ UNCHANGED <<tfstate, stateSet, pollVars>>
                ELSE IF launched.rec.waitForCompletion
                THEN /\ StartPoll(launched.rec, launched.diags)
                     /\ UNCHANGED <<tfstate, stateSet>>
                ELSE /\ pc' = "done"
                     /\ tfstate' = StateOf(launched.rec)
                     /\ stateSet' = TRUE
                     /\ UNCHANGED pollVars

LaunchAndSave(name, plan, resp) ==
    LET launched == LaunchJob(plan, resp)
    IN  /\ op' = name
        /\ launches' = Append(launches, Launch(plan, resp))
        /\ data' = launched.rec
        /\ diags' = launched.diags
        /\ UNCHANGED <<config, destroyJobData>>
        /\ IF HasError(launched.diags)
           THEN /\ pc' = "done"
                /\ UNCHANGED <<tfstate, stateSet, pollVars>>
           ELSE IF launched.rec.waitForCompletion
           THEN /\ StartPoll(launched.rec, launched.diags)
                /\ UNCHANGED <<tfstate, stateSet>>
           ELSE /\ pc' = "done"
                /\ tfstate' = StateOf(launched.rec)
                /\ stateSet' = TRUE
                /\ UNCHANGED pollVars

Create ==
    /\ pc = "idle" /\ ~tfstate.present
    /\ \E resp \in LaunchResponses(ValueInt64(config.templateID)) :
          LaunchAndSave("Create", config, resp)

\* The plan of an Update: inventory_id is Optional and Computed with
\* UseStateForUnknown, so an unconfigured inventory_id is planned as the
\* state's value.
UpdatePlan ==
    [config EXCEPT !.inventoryID = IF IsNull(config.inventoryID)
                                   THEN tfstate.rec.inventoryID
                                   ELSE config.inventoryID]

Update ==
    /\ pc = "idle" /\ tfstate.present
    /\ \E resp \in LaunchResponses(ValueInt64(config.templateID)) :
          LaunchAndSave("Update", UpdatePlan, resp)

(***************************************************************************)
(* Read: one fetch with its status code.                                   *)
(***************************************************************************)
\* NotFoundDiags with the fetch's diagnostics appended before the 404 test.
NotFoundDiagsAppended(fetched) == {WarningDiag("Job not found")} \cup fetched

\* The diagnostics of a Read that got a 404; `fetched` are the ones the
\* fetch returned, which are not appended.
NotFoundDiags(fetched) == {WarningDiag("Job not found")}

Read ==
    /\ pc = "idle" /\ tfstate.present
    /\ \E resp \in ReadResponses :
          LET prior == tfstate.rec
              got == GetWithStatus(resp)
              parsed == ParseHttpResponse(prior, got.body)
          IN  /\ op' = "Read"
              /\ pc' = "done"
              /\ fetches' = fetches + 1
              /\ fetchLog' = Append(fetchLog,
                                    [url |-> prior.url, response |-> resp])
              /\ UNCHANGED <<config, destroyJobData, launches, model,
                             diagnostics, pollPc, deadline, now, timerFired, ctxDone,
                             resultErr, waitErr,
                   pollResult>>
              /\ IF got.status = StatusNotFound
                 THEN /\ diags' = NotFoundDiags(got.diags)
                      /\ tfstate' = NoState
                      /\ data' = prior
                      /\ UNCHANGED stateSet
                 ELSE IF HasError(got.diags)
                 THEN /\ diags' = got.diags
                      /\ data' = prior
                      /\ UNCHANGED <<tfstate, stateSet>>
                 ELSE /\ diags' = got.diags \cup parsed.diags
                      /\ data' = parsed.rec
                      /\ IF HasError(parsed.diags)
                         THEN UNCHANGED <<tfstate, stateSet>>
                         ELSE /\ tfstate' = StateOf(parsed.rec)
                              /\ stateSet' = TRUE

(***************************************************************************)
(* Delete: launches the destroy job when one is configured.  Delete never  *)
(* touches resp.State: the framework removes the resource when the handler *)
(* returns without an error diagnostic, and keeps it otherwise.            *)
(***************************************************************************)
\* RemovedUnlessError with the diagnostics ignored.
RemovedAlways(ds) == NoState

RemovedUnlessError(ds) ==
    IF HasError(ds) THEN tfstate ELSE NoState

Delete ==
    /\ pc = "idle" /\ tfstate.present
    /\ op' = "Delete"
    /\ data' = tfstate.rec
    /\ UNCHANGED <<config, stateSet>>
    /\ IF LaunchesDestroyJob(tfstate.rec)
       THEN \E resp \in LaunchResponses(ValueInt64(tfstate.rec.destroyTemplateID)) :
               LET job == DestroyJobModel(tfstate.rec)
                   launched == LaunchJob(job, resp)
               IN  /\ launches' = Append(launches, Launch(job, resp))
                   /\ destroyJobData' = launched.rec
                   /\ diags' = launched.diags
                   /\ IF HasError(launched.diags)
                      THEN /\ pc' = "done"
                           /\ UNCHANGED <<tfstate, pollVars>>
                      ELSE IF launched.rec.waitForCompletion
                      THEN /\ StartPoll(launched.rec, launched.diags)
                           /\ UNCHANGED tfstate
                      ELSE /\ pc' = "done"
                           /\ tfstate' = RemovedUnlessError(launched.diags)
                           /\ UNCHANGED pollVars
       ELSE /\ pc' = "done"
            /\ diags' = {}
            /\ tfstate' = RemovedUnlessError({})
            /\ UNCHANGED <<destroyJobData, launches, pollVars>>

(***************************************************************************)
(* The poller.  retry.RetryContext runs the attempts in a goroutine, the   *)
(* first one at once and the next ones after a growing wait, while the     *)
(* caller waits for a final result, for the timeout or for the context's   *)
(* cancellation.                                                           *)
(***************************************************************************)
\* The handler's code after retry.RetryContext returned `err`.
AfterWait(lastErr, ended) ==
    /\ waitErr' = ended
    /\ pollResult' = RetryContextResult(lastErr, ended)
    /\ pollPc' = "none"
    /\ pc' = "done"
    /\ IF op = "Delete"
       THEN LET ds == diags \cup
                      WaitError(pollResult',
                                "error when waiting for destroy job to complete")
            IN  /\ diags' = ds
                /\ tfstate' = RemovedUnlessError(ds)
                /\ UNCHANGED stateSet
       ELSE LET ds == diags \cup
                      WaitError(pollResult',
                                "error when waiting for AAP job to complete")
            IN  /\ diags' = ds
                /\ IF HasError(ds)
                   THEN UNCHANGED <<tfstate, stateSet>>
                   ELSE /\ tfstate' = StateOf(SavedRecord(data, model'))
                        /\ stateSet' = TRUE

\* An attempt starts: the GET leaves for the URL the poller's record holds.
PollFetch ==
    /\ pc = "poll" /\ pollPc = "wait"
    /\ fetches < MaxFetches
    /\ fetches' = fetches + 1
    /\ pollPc' = "inflight"
    /\ UNCHANGED <<config, tfstate, op, pc, data, destroyJobData, diags,
                   stateSet, launches, model, diagnostics, fetchLog, deadline,
                   now, timerFired, ctxDone, resultErr, waitErr,
                   pollResult>>

\* The attempt's GET returns and the retry function runs to its end, in the
\* library's goroutine; the handler is still waiting inside
\* retry.RetryContext.  A nil result is posted for the waiting caller.  A
\* retryable error is kept as resultErr and the loop goes on, unless the
\* timeout has fired meanwhile: the goroutine then stops, which is posted
\* for the caller as well.  The caller takes what is posted in a step of
\* its own (PollResultTaken).
PollFetchReturn ==
    /\ pc = "poll" /\ pollPc = "inflight"
    /\ \E resp \in FetchResponses :
          LET attempt == RetryAttempt(model, diagnostics, resp)
          IN  /\ model' = attempt.model
              /\ diagnostics' = attempt.diagnostics
              /\ fetchLog' = Append(fetchLog,
                                    [url |-> model.url, response |-> resp])
              /\ resultErr' = attempt.err
              /\ pollPc' = IF attempt.err = "nil" \/ timerFired
                           THEN "posted"
                           ELSE "wait"
              /\ UNCHANGED <<config, tfstate, op, pc, data, destroyJobData,
                             diags, stateSet, launches, fetches, deadline,
                             now, timerFired, ctxDone, waitErr, pollResult>>

\* The waiting caller takes what the goroutine posted and
\* retry.RetryContext returns to the handler: nil after an attempt that
\* returned nil; after a retryable error in the grace period, the end of
\* the goroutine, for which the wait ends with a TimeoutError.
PollResultTaken ==
    /\ pc = "poll" /\ pollPc = "posted"
    /\ AfterWait(resultErr, IF resultErr = "nil" THEN "nil" ELSE "timeout")
    /\ UNCHANGED <<config, op, data, destroyJobData, launches, model,
                   diagnostics, fetches, fetchLog, deadline, now, timerFired,
                   ctxDone, resultErr>>

\* Time passes.  The first attempt starts without a wait, so no time passes
\* before it unless the timeout is zero.
Tick ==
    /\ pc = "poll" /\ fetches > 0 /\ now < deadline
    /\ now' = now + 1
    /\ UNCHANGED <<config, tfstate, op, pc, data, destroyJobData, diags,
                   stateSet, launches, model, diagnostics, fetches, fetchLog,
                   pollPc, deadline, timerFired, ctxDone, resultErr, waitErr,
                   pollResult>>

\* The timeout fires.  Between attempts the goroutine is stopped and the
\* wait ends with a TimeoutError; during an attempt, or with a final result
\* posted and not yet taken, the wait goes on, for a grace period, until
\* the attempt returns and its result is taken.
PollTimeout ==
    /\ pc = "poll" /\ ~timerFired /\ now >= deadline
    /\ UNCHANGED <<ctxDone, config, op, data, destroyJobData, launches, model,
                   diagnostics, fetches, fetchLog, deadline, now, resultErr>>
    /\ IF pollPc \in {"inflight", "posted"}
       THEN /\ timerFired' = TRUE
            /\ UNCHANGED <<tfstate, pc, diags, stateSet, pollPc, waitErr,
                           pollResult>>
       ELSE /\ AfterWait(resultErr, "timeout")
            /\ UNCHANGED timerFired

\* The caller's context is cancelled: the wait ends at once, with the
\* context's error, or with a TimeoutError when the grace period was
\* running, also when a final result was posted and not yet taken.
PollCancel ==
    /\ pc = "poll"
    /\ AfterWait(resultErr,
                 IF timerFired THEN "timeout" ELSE "context canceled")
    /\ ctxDone' = TRUE
    /\ UNCHANGED <<config, op, data, destroyJobData, launches, model,
                   diagnostics, fetches, fetchLog, deadline, now, timerFired,
                   resultErr>>

\* The handler has returned; the next one may be called.
Return ==
    /\ pc = "done"
    /\ op' = "none" /\ pc' = "idle"
    /\ data' = ZeroModel /\ destroyJobData' = ZeroModel
    /\ diags' = {} /\ stateSet' = FALSE /\ launches' = <<>>
    /\ model' = ZeroModel /\ diagnostics' = {}
    /\ fetches' = 0 /\ fetchLog' = <<>>
    /\ pollPc' = "none" /\ deadline' = 0 /\ now' = 0 /\ timerFired' = FALSE
    /\ ctxDone' = FALSE
    /\ resultErr' = "nil" /\ waitErr' = "none" /\ pollResult' = "none"
    /\ UNCHANGED <<config, tfstate>>

Next ==
    \/ Create
    \/ Update
    \/ Read
    \/ Delete
    \/ PollFetch
    \/ PollFetchReturn
    \/ PollResultTaken
    \/ Tick
    \/ PollTimeout
    \/ PollCancel
    \/ Return

Spec == Init /\ [][Next]_vars

(***************************************************************************)
(* The properties.                                                         *)
(***************************************************************************)
\* The terminal statuses as the specification lists them.
TerminalStatuses == {"successful", "failed", "error", "canceled"}
NonTerminalStatuses == {"new", "pending", "waiting", "running"}

Last(seq) == seq[Len(seq)]

\* What a logged fetch brought: the status read from a 200, "BAD" for a 200
\* whose body does not parse, "ERR" for any failure.
FetchOutcome(resp) ==
    IF resp.err \/ resp.code # 200 THEN "ERR"
    ELSE IF ~resp.body.valid THEN "BAD"
    ELSE resp.body.status

\* A handler that launches and may poll has returned / is polling.
Launching == op \in {"Create", "Update", "Delete"}
CreateOrUpdate == op \in {"Create", "Update"}

\* The poller of the running handler ended because its last fetch returned
\* a terminal status.
EndedOnTerminalFetch ==
    /\ pc = "done" /\ pollResult = "nil"
    /\ Len(fetchLog) > 0
    /\ FetchOutcome(Last(fetchLog).response) \in TerminalStatuses

\* C1 (as claimed): when Create or Update waited and the poller stopped on
\* a fetch that returned a terminal status, the record saved as the
\* resource's state carries that status, not the launch response's.
C1_SavedRecordIsRefreshed ==
    (CreateOrUpdate /\ EndedOnTerminalFetch)
        => /\ stateSet
           /\ tfstate.present
           /\ tfstate.rec.status = FetchOutcome(Last(fetchLog).response)

\* C2 (as claimed): when the timeout ends the wait after fetches that all
\* returned a non-terminal status, what retry.RetryContext reports is the
\* timeout, and Create / Update end with the error diagnostic of the wait
\* and save no state.
C2_TimeoutIsReported ==
    (/\ CreateOrUpdate /\ pc = "done" /\ waitErr = "timeout"
     /\ fetchLog # <<>>
     /\ \A i \in 1..Len(fetchLog) :
           FetchOutcome(fetchLog[i].response)
              \notin TerminalStatuses \cup {"ERR", "BAD"})
        => /\ pollResult = "timeout"
           /\ ErrorDiag("error when waiting for AAP job to complete") \in diags
           /\ ~stateSet

\* The part of C2 that holds: when the wait ends by the timeout, the poller
\* does not report success, and Create / Update end with the error
\* diagnostic of the wait and save no state.
C2_TimeoutIsAnError ==
    (CreateOrUpdate /\ pc = "done" /\ waitErr = "timeout")
        => /\ pollResult # "nil"
           /\ ErrorDiag("error when waiting for AAP job to complete") \in diags
           /\ ~stateSet

\* C2's case: a Create with a timeout of 1 whose fetches all returned
\* "running" until the timeout ended the wait.
C2_Witness ==
    /\ op = "Create" /\ pc = "done" /\ waitErr = "timeout"
    /\ deadline = 1 /\ now = 1
    /\ Len(fetchLog) = 2
    /\ \A i \in 1..Len(fetchLog) :
          FetchOutcome(fetchLog[i].response) = "running"
    /\ HasError(diags) /\ ~tfstate.present

\* C3: a poller that gets a terminal status from its n-th fetch has made
\* exactly n fetches and its attempt returns success at once: a terminal
\* status is only ever the last entry of the log, with no fetch started
\* after it; the attempt's result is nil and awaits the caller, and the
\* handler that has returned got success from the wait, unless its context
\* was cancelled before it took the result.
C3_StopsAtFirstTerminal ==
    Launching =>
        \A i \in 1..Len(fetchLog) :
            FetchOutcome(fetchLog[i].response) \in TerminalStatuses
                => /\ i = Len(fetchLog)
                   /\ fetches = i
                   /\ resultErr = "nil"
                   /\ pc = "poll" => pollPc = "posted"
                   /\ pc = "done" => (pollResult = "nil" \/ ctxDone)
                   /\ pc \in {"poll", "done"}

\* C3's case: non-terminal, non-terminal, successful: three fetches.
C3_Witness ==
    /\ Launching /\ pc = "done" /\ pollResult = "nil"
    /\ fetches = 3 /\ Len(fetchLog) = 3
    /\ FetchOutcome(fetchLog[1].response) = "running"
    /\ FetchOutcome(fetchLog[2].response) = "running"
    /\ FetchOutcome(fetchLog[3].response) = "successful"

\* C4: a Read that gets a 404 ends with the warning, without an error
\* diagnostic, with the resource removed from state and with nothing saved.
C4_ReadNotFound ==
    (op = "Read" /\ pc = "done"
     /\ ~Last(fetchLog).response.err
     /\ Last(fetchLog).response.code = 404)
        => /\ WarningDiag("Job not found") \in diags
           /\ ~HasError(diags)
           /\ ~tfstate.present
           /\ ~stateSet

\* C4's case: the 404 came with an error diagnostic of the fetch.
C4_Witness ==
    /\ op = "Read" /\ pc = "done"
    /\ Last(fetchLog).response.code = 404
    /\ HasError(GetWithStatus(Last(fetchLog).response).diags)
    /\ ~tfstate.present

\* C5: a Delete whose destroy template is null, zero or negative makes no
\* remote call and reports no error.
C5_DeleteWithoutTemplate ==
    (op = "Delete" /\ pc = "done"
     /\ (data.destroyTemplateID.null \/ data.destroyTemplateID.value <= 0))
        => /\ launches = <<>>
           /\ fetches = 0
           /\ ~HasError(diags)

\* C5's case: the template is zero, the record waits for completion and
\* holds a handle.
C5_Witness ==
    /\ op = "Delete" /\ pc = "done"
    /\ ~data.destroyTemplateID.null /\ data.destroyTemplateID.value = 0
    /\ data.waitForCompletion /\ data.url # ""
    /\ launches = <<>> /\ fetches = 0

\* A Delete that launches: the destroy template is set and positive.
DeleteWithTemplate ==
    /\ op = "Delete"
    /\ ~data.destroyTemplateID.null /\ data.destroyTemplateID.value > 0

\* The poller has been started by the running handler.
PollerStarted == pc = "poll" \/ pollResult # "none"

\* The launch of the running handler failed: a transport failure, a status
\* other than 201, or a body that does not parse.
LaunchFailed ==
    /\ launches # <<>>
    /\ \/ launches[1].response.err
       \/ launches[1].response.code # 201
       \/ ~launches[1].response.body.valid

\* C6: a Delete with a positive destroy template sends exactly one launch,
\* to the destroy template, called on the original record's inventoryID and
\* extraVars (the payload carrying the inventory with the launch default
\* applied), and polls exactly when the original waitForCompletion is set
\* and the launch succeeded, with the original waitTimeout as its timeout.
C6_DeleteLaunchesDestroyTemplate ==
    DeleteWithTemplate =>
        /\ Len(launches) = 1
        /\ launches[1].request.method = "POST"
        /\ launches[1].request.template = data.destroyTemplateID
        /\ launches[1].record.inventoryID = data.inventoryID
        /\ launches[1].record.extraVars = data.extraVars
        /\ launches[1].request.body.extra_vars = data.extraVars
        /\ launches[1].request.body.inventory =
              (IF data.inventoryID.value = 0 THEN 1
               ELSE data.inventoryID.value)
        /\ PollerStarted <=> (data.waitForCompletion /\ ~LaunchFailed)
        /\ PollerStarted => deadline = data.waitTimeout
        /\ waitErr = "timeout" => now >= data.waitTimeout

\* C6's case: destroy template 9 on a record of template 7 with an inventory
\* and extra vars, polled with the record's timeout of 1.
C6_Witness ==
    /\ DeleteWithTemplate /\ pc = "done"
    /\ data.destroyTemplateID.value = 9 /\ data.templateID.value = 7
    /\ data.inventoryID.value = 5 /\ data.extraVars = "a: 1"
    /\ launches[1].request.template.value = 9
    /\ launches[1].request.body.inventory = 5
    /\ data.waitForCompletion /\ data.waitTimeout = 1
    /\ waitErr = "timeout" /\ fetches > 0

\* C7 (as claimed): whatever the outcome of the destroy job, a Delete that
\* has returned has the resource removed from state.
C7_DeleteAlwaysRemoves ==
    (op = "Delete" /\ pc = "done") => ~tfstate.present

\* C7 (amended): the resource is removed exactly when Delete returns no
\* error diagnostic.  A destroy job that reached a terminal status,
\* whichever it is, leaves none; a failed launch, a timeout and a
\* cancellation each leave one, and the resource stays in state.
C7_DeleteRemovesUnlessError ==
    (op = "Delete" /\ pc = "done") =>
        /\ tfstate.present <=> HasError(diags)
        /\ pollResult = "nil" => ~tfstate.present
        /\ waitErr \in {"timeout", "context canceled"} => tfstate.present
        /\ LaunchFailed => tfstate.present

\* C7's case: the destroy job ended "failed" and the resource is removed.
C7_Witness ==
    /\ op = "Delete" /\ pc = "done" /\ pollResult = "nil"
    /\ FetchOutcome(Last(fetchLog).response) = "failed"
    /\ ~tfstate.present

\* C8: a failed launch ends Create, Update and Delete with an error
\* diagnostic; no status fetch follows, the poller is not started, and no
\* state is saved.
C8_LaunchFailureIsFatal ==
    (Launching /\ LaunchFailed)
        => /\ pc = "done"
           /\ HasError(diags)
           /\ fetches = 0 /\ fetchLog = <<>>
           /\ pollResult = "none"
           /\ ~stateSet
           /\ op = "Create" => ~tfstate.present
           /\ op = "Delete" => tfstate.present

\* C8's case: a Create that waits for completion got a 200 with a
\* well-formed job body.
C8_Witness ==
    /\ op = "Create" /\ pc = "done" /\ LaunchFailed
    /\ launches[1].record.waitForCompletion
    /\ launches[1].response.code = 200
    /\ launches[1].response.body.valid
    /\ fetches = 0 /\ ~tfstate.present

\* Strings outside the status vocabulary.
UnknownStatuses == {"", "archived", "Successful", "done"}

\* C9: IsFinalStateAAPJob is true exactly for successful, failed, error and
\* canceled, false for new, pending, waiting, running and for any other
\* string; and the poller's attempt asks for another one after a fetch
\* whose status is not one of the four and returns nil after one whose
\* status is, so that the wait reports success only after a terminal
\* status.
C9_TerminalClassification ==
    /\ \A st \in TerminalStatuses : IsFinalStateAAPJob(st)
    /\ \A st \in NonTerminalStatuses \cup UnknownStatuses :
          ~IsFinalStateAAPJob(st)
    /\ (Launching /\ Len(fetchLog) > 0
        /\ FetchOutcome(Last(fetchLog).response) \notin {"ERR", "BAD"})
          => /\ resultErr = "nil"
                   <=> FetchOutcome(Last(fetchLog).response)
                          \in TerminalStatuses
             /\ pollResult = "nil"
                   => FetchOutcome(Last(fetchLog).response)
                          \in TerminalStatuses

\* C9's case: the last fetch returned a status outside the vocabulary and
\* the poller waits for its next attempt.
C9_Witness ==
    /\ Launching /\ pc = "poll" /\ pollPc = "wait"
    /\ Len(fetchLog) > 0
    /\ FetchOutcome(Last(fetchLog).response) = "archived"
    /\ model.status = "archived"
    /\ resultErr = "job hasn't yet reached a final state"

\* C10: every launch payload carries inventory 1 when the record's
\* inventoryID is null or zero and the inventoryID otherwise; a Read and a
\* poll refresh store the inventory the remote system reported, a reported
\* 0 staying 0.
C10_InventoryDefaultAtLaunchOnly ==
    /\ \A i \in 1..Len(launches) :
          launches[i].request.body.inventory =
              (IF launches[i].record.inventoryID.null
                  \/ launches[i].record.inventoryID.value = 0
               THEN 1
               ELSE launches[i].record.inventoryID.value)
    /\ (op = "Read" /\ stateSet)
          => tfstate.rec.inventoryID =
                Int64Value(Last(fetchLog).response.body.inventory)
    /\ (Launching /\ Len(fetchLog) > 0 /\ Last(fetchLog).response.body.valid)
          => model.inventoryID =
                Int64Value(Last(fetchLog).response.body.inventory)

\* C10's case: a launch on a record without an inventory sent inventory 1,
\* and a poll refresh then stored the reported inventory 0.
C10_Witness ==
    /\ op = "Create" /\ Len(launches) = 1
    /\ launches[1].record.inventoryID.null
    /\ launches[1].request.body.inventory = 1
    /\ Len(fetchLog) > 0
    /\ Last(fetchLog).response.body.valid
    /\ Last(fetchLog).response.body.inventory = 0
    /\ model.inventoryID = Int64Value(0)

\* C11 (as claimed): the failure retry.RetryContext reports after a
\* cancellation differs from the one it reports when the timeout ends the
\* wait after the same attempts, also when an attempt has already returned
\* a non-terminal status.
C11_CancelledDistinctFromTimeout ==
    (Launching /\ pc = "done" /\ waitErr = "context canceled")
        => /\ pollResult # "nil"
           /\ pollResult # RetryContextResult(resultErr, "timeout")


\* The name the rename table gives a key of the ignored-fields map.
Renamed(k) == IF k = "inventory" THEN "inventory" ELSE k

\* `list` is what the reporter owes for the keys `keys` of a response: the
\* null list for no key, and otherwise one renamed name per key.
Reports(keys, list) ==
    /\ list.null <=> keys = <<>>
    /\ ~(~list.null /\ list.elems = <<>>)
    /\ Len(list.elems) = Len(keys)
    /\ \A i \in 1..Len(keys) : list.elems[i] = Renamed(keys[i])

\* The last status fetch of the running handler was answered by a job
\* document.
LastFetchParsed ==
    /\ fetchLog # <<>>
    /\ FetchOutcome(Last(fetchLog).response) \notin {"ERR", "BAD"}

\* C12: the ignored fields a record holds after a response was parsed into
\* it are the null list when the response has no ignored field, never a
\* zero-length list, and otherwise one name per key, renamed through the
\* table or passed through; this holds whatever the record held before, for
\* the record a Read saves and for the poller's record after a fetch.
C12_IgnoredFieldsReported ==
    /\ (op = "Read" /\ pc = "done" /\ stateSet)
          => Reports(Last(fetchLog).response.body.ignored_fields,
                     tfstate.rec.ignoredFields)
    /\ (Launching /\ LastFetchParsed)
          => Reports(Last(fetchLog).response.body.ignored_fields,
                     model.ignoredFields)

\* A poller whose record came with an ignored field from the launch has
\* fetched a job document without any: the record's list is null again.
C12_Witness ==
    /\ Launching /\ LastFetchParsed
    /\ data.ignoredFields = ListValue(<<"inventory">>)
    /\ Last(fetchLog).response.body.ignored_fields = <<>>
    /\ model.ignoredFields = ListNull


\* C13 (as claimed): the URL of a record is the one its launch assigned,
\* whatever the later status responses carry: the poller's record keeps the
\* URL of the launch response and every fetch of the poller goes to it, and
\* the record a Read saves has the URL the Read fetched.
C13_HandleIsWriteOnce ==
    /\ (Launching /\ PollerStarted)
          => /\ model.url = launches[1].response.body.url
             /\ \A i \in 1..Len(fetchLog) :
                   fetchLog[i].url = launches[1].response.body.url
    /\ (op = "Read" /\ pc = "done" /\ stateSet)
          => tfstate.rec.url = Last(fetchLog).url


\* C14 (as claimed): a status fetch answered 200 with a body that is not
\* JSON ends the operation with an error diagnostic: a Read returns an
\* error and saves nothing, and in a poller such a fetch is the last one:
\* no attempt follows or is waited for, and the handler, once it has
\* returned, holds an error in its diagnostics.
C14_ParseErrorIsFatal ==
    /\ (op = "Read" /\ pc = "done"
          /\ FetchOutcome(Last(fetchLog).response) = "BAD")
          => (HasError(diags) /\ ~stateSet)
    /\ Launching
          => \A i \in 1..Len(fetchLog) :
                FetchOutcome(fetchLog[i].response) = "BAD"
                   => /\ i = Len(fetchLog)
                      /\ fetches = i
                      /\ pollPc # "wait"
                      /\ pc = "done" => HasError(diags)


\* The last status fetch of the running handler was answered 404.
LastFetchNotFound ==
    /\ fetchLog # <<>>
    /\ ~Last(fetchLog).response.err
    /\ Last(fetchLog).response.code = StatusNotFound

\* C15 (as claimed): a launching handler that returns after a poll fetch
\* answered 404 returns a warning and no error.
C15_PollNotFoundIsRecoverable ==
    (Launching /\ pc = "done" /\ LastFetchNotFound)
        => /\ \E d \in diags : d.severity = "warning"
           /\ ~HasError(diags)

\* C15 (amended): during polling a 404 is a failed fetch like any other.
\* The attempt ends with the retryable fetch error and the loop goes on; no
\* launching handler ever returns a warning; and a handler that returns
\* with the 404 as its last fetch returns the fetch error as an error
\* diagnostic, saves nothing and leaves the resource's state in place.
C15_PollNotFoundIsRetried ==
    Launching
        => /\ \A d \in diags : d.severity # "warning"
           /\ LastFetchNotFound
                 => /\ resultErr = "error fetching job status"
                    /\ pc = "done"
                          => /\ pollResult = "error fetching job status"
                             /\ HasError(diags)
                             /\ ~stateSet
                             /\ op \in {"Update", "Delete"}
                                   => tfstate.present

\* An Update whose poller ended after a 404.
C15_Witness ==
    /\ op = "Update" /\ pc = "done" /\ LastFetchNotFound
    /\ pollResult = "error fetching job status"


\* C16 (as claimed): a handler whose launch was answered with a terminal
\* status sends no status fetch for that job.
C16_NoFetchAfterTerminalLaunch ==
    (Launching /\ launches # <<>> /\ ~LaunchFailed
       /\ launches[1].response.body.status \in TerminalStatuses)
        => (fetches = 0 /\ fetchLog = <<>>)


\* C17 (as claimed): a poller that has returned an outcome has sent at
\* least one status fetch, whatever the timeout.  Waits ended by a
\* cancellation are left aside: the statement fails without them.
C17_AtLeastOneFetch ==
    (Launching /\ pollResult # "none" /\ waitErr # "context canceled")
        => fetches >= 1


\* The diagnostic a launching handler adds when its wait failed.
WaitFailedDiags ==
    { d \in diags : d.summary \in
         {"error when waiting for AAP job to complete",
          "error when waiting for destroy job to complete"} }

\* C18: a poll fetch that fails in transport never ends the wait.  After
\* such a fetch the attempt's error is the retryable fetch error, and the
\* handler has returned only if the timeout or a cancellation ended the
\* wait, which then reports the fetch error; and when a later fetch returns
\* a terminal status the poller reports success, however many fetches
\* failed before it, unless the context was cancelled before the caller
\* took the result.
C18_TransportFailureIsRetried ==
    (Launching /\ fetchLog # <<>>)
        => /\ Last(fetchLog).response.err
                 => /\ resultErr = "error fetching job status"
                    /\ pc = "done"
                          => /\ waitErr \in {"timeout", "context canceled"}
                             /\ pollResult = "error fetching job status"
                             /\ WaitFailedDiags # {}
           /\ (pc = "done"
                 /\ FetchOutcome(Last(fetchLog).response) \in TerminalStatuses)
                 => \/ /\ waitErr = "nil" /\ pollResult = "nil"
                       /\ WaitFailedDiags = {}
                    \/ ctxDone

\* Two fetches failed in transport, the third returned a terminal status
\* and the poller reported success.
C18_Witness ==
    /\ Launching /\ pc = "done" /\ Len(fetchLog) = 3
    /\ fetchLog[1].response.err /\ fetchLog[2].response.err
    /\ FetchOutcome(fetchLog[3].response) \in TerminalStatuses
    /\ pollResult = "nil"


\* C19: every handler call sends the launches the claim counts, no more and
\* no fewer.  `launches` is the log of the running handler, empty between
\* calls.  The step that enters Create or Update sends exactly one launch,
\* a POST to the planned template, without any fetch before it, also when
\* the resource already has a job; the step that enters Delete sends one
\* exactly when the state's destroyTemplateID is positive; the step that
\* enters Read sends none; and no later step of a handler sends another.
\* Summed over the calls of a run, launches = Creates + Updates + Deletes
\* with a positive destroyTemplateID.
C19_OneLaunchPerCall ==
    [][ /\ op = "none" => launches = <<>>
        /\ (op = "none" /\ op' \in {"Create", "Update"})
              => /\ Len(launches') = 1
                 /\ launches'[1].request.method = "POST"
                 /\ launches'[1].request.template = config.templateID
                 /\ fetches' = 0 /\ fetchLog' = <<>>
        /\ (op = "none" /\ op' = "Delete")
              => Len(launches') =
                    IF ValueInt64(tfstate.rec.destroyTemplateID) > 0
                    THEN 1 ELSE 0
        /\ (op = "none" /\ op' = "Read") => launches' = <<>>
        /\ (op # "none" /\ op' # "none") => launches' = launches
      ]_vars

\* An Update of a resource that already had a job has launched a new one,
\* waited for it and saved it.
C19_Witness ==
    /\ op = "Update" /\ pc = "done" /\ stateSet /\ tfstate.present
    /\ Len(launches) = 1 /\ fetches >= 1


\* The elements of a sequence.
Range(seq) == { seq[i] : i \in 1..Len(seq) }

\* C20 (as claimed): two runs of the reporter on the same ignored-fields
\* map give the same list.  The state's record holds the list of an earlier
\* run; a Read whose response carries the same keys saves the same list,
\* in the same order.
C20_ReporterIsDeterministic ==
    [][ (/\ op = "none" /\ op' = "Read" /\ stateSet'
         /\ ~tfstate.rec.ignoredFields.null
         /\ Range(Last(fetchLog').response.body.ignored_fields)
               = Range(tfstate.rec.ignoredFields.elems)
         /\ Len(Last(fetchLog').response.body.ignored_fields)
               = Len(tfstate.rec.ignoredFields.elems))
           => tfstate'.rec.ignoredFields = tfstate.rec.ignoredFields
      ]_vars


\* C21 (as claimed): a poll attempt whose fetch failed, by a transport
\* failure or by a status other than 200, leaves the poller's record as it
\* was, whatever body came with the failure: url, status, templateID and
\* inventoryID are those before the attempt.
C21_FailedFetchLeavesRecord ==
    [][ (/\ pc = "poll" /\ pollPc = "inflight"
         /\ Len(fetchLog') = Len(fetchLog) + 1
         /\ FetchOutcome(Last(fetchLog').response) = "ERR")
           => /\ model'.url = model.url
              /\ model'.status = model.status
              /\ model'.templateID = model.templateID
              /\ model'.inventoryID = model.inventoryID
      ]_vars

====
